---- MODULE Spec2Model ----
(***************************************************************************)
(* Model of src/main.py (Mem0 Cathedral API): the quality gate, the        *)
(* write-time duplicate check, the context endpoints and the consolidation *)
(* scan, together with the calls each handler makes to the remote store.   *)
(*                                                                         *)
(* A text is a sequence of one-character strings.  The remote store is an  *)
(* external collaborator: every reply it can give (a transport exception,  *)
(* a status code, a body) is a nondeterministic choice.                    *)
(***************************************************************************)
EXTENDS Integers, Sequences, FiniteSets, TLC

VARIABLES
    pc,       \* pc[r]: where handler r stands ("idle", an await point, "done")
    req,      \* req[r]: the endpoint called and its input
    loc,      \* loc[r]: the handler's local variables that live across an await
    resp,     \* resp[r]: what the handler gave back to its caller
    calls,    \* calls[r]: the calls handler r issued to the remote store, in order
    ENABLE_GRAPH_FEATURES,  \* the process's setting, read once from the environment
    fn_in,    \* input of the pure function under check (function specifications)
    fn_out,   \* results of its successive applications
    remote    \* the remote store of the concurrency specification: the memories
              \* it persisted, and its answer to the pending call of each handler

vars == <<pc, req, loc, resp, calls, ENABLE_GRAPH_FEATURES, fn_in, fn_out, remote>>

----------------------------------------------------------------------------
(* Bounds of the model *)

\* Longest text of the quality pool, in pieces
MaxPieces == 4
\* Longest list of memories a reply of the remote store carries
MaxResults == 3
\* Number of distinct clock readings
NumClock == 2
\* Longest text of the similarity pool, in pieces
MaxSimPieces == 2
\* Longest list of memories given to the reranker and to the formatter
MaxRerank == 3

----------------------------------------------------------------------------
(* Program constants *)

MIN_MEMORY_LENGTH == 20
MIN_WORD_COUNT == 4
MAX_CLEAN_LENGTH == 500

----------------------------------------------------------------------------
(* Text primitives (Python str methods) *)

Whitespace == {" ", "\t", "\n"}

Uppers == <<"A","B","C","D","E","F","G","H","I","J","K","L","M",
            "N","O","P","Q","R","S","T","U","V","W","X","Y","Z">>
Lowers == <<"a","b","c","d","e","f","g","h","i","j","k","l","m",
            "n","o","p","q","r","s","t","u","v","w","x","y","z">>

UpperSet == {Uppers[i] : i \in 1..26}
LowerSet == {Lowers[i] : i \in 1..26}
ToLower == [c \in UpperSet |-> Lowers[CHOOSE i \in 1..26 : Uppers[i] = c]]
ToUpper == [c \in LowerSet |-> Uppers[CHOOSE i \in 1..26 : Lowers[i] = c]]

LowerChar(c) == IF c \in UpperSet THEN ToLower[c] ELSE c

UpperChar(c) == IF c \in LowerSet THEN ToUpper[c] ELSE c

\* str.lower()
Lower(s) == [i \in 1..Len(s) |-> LowerChar(s[i])]

\* str.strip()
Strip(s) ==
    LET keep == {i \in 1..Len(s) : s[i] \notin Whitespace}
    IN  IF keep = {} THEN <<>>
        ELSE LET lo == CHOOSE i \in keep : \A j \in keep : i <= j
                 hi == CHOOSE i \in keep : \A j \in keep : j <= i
             IN  SubSeq(s, lo, hi)

\* str.split(): the maximal runs of non-whitespace characters, in order
Split(s) ==
    LET starts == {i \in 1..Len(s) :
                      /\ s[i] \notin Whitespace
                      /\ (i = 1 \/ s[i - 1] \in Whitespace)}
        ends == {i \in 1..Len(s) :
                      /\ s[i] \notin Whitespace
                      /\ (i = Len(s) \/ s[i + 1] \in Whitespace)}
        StartOf(k) == CHOOSE i \in starts : Cardinality({j \in starts : j < i}) = k - 1
        EndOf(i) == CHOOSE j \in ends : j >= i /\ \A m \in ends : m >= i => j <= m
    IN  [k \in 1..Cardinality(starts) |-> SubSeq(s, StartOf(k), EndOf(StartOf(k)))]

\* `p in s` for strings
Contains(s, p) ==
    \E i \in 0..(Len(s) - Len(p)) : \A k \in 1..Len(p) : s[i + k] = p[k]

\* The one-character text c, n times
Repeat(c, n) == [i \in 1..n |-> c[1]]

Range(f) == {f[i] : i \in DOMAIN f}

----------------------------------------------------------------------------
(* Quality gate *)

low_value_patterns ==
    << <<"o", "k">>,
       <<"o", "k", "a", "y">>,
       <<"g", "o", "t", " ", "i", "t">>,
       <<"u", "n", "d", "e", "r", "s", "t", "o", "o", "d">>,
       <<"s", "u", "r", "e">>,
       <<"t", "h", "a", "n", "k", "s">>,
       <<"t", "h", "a", "n", "k", " ", "y", "o", "u">>,
       <<"y", "e", "s">>,
       <<"n", "o">>,
       <<"m", "a", "y", "b", "e">>,
       <<"i", " ", "s", "e", "e">>,
       <<"a", "l", "r", "i", "g", "h", "t">>,
       <<"c", "o", "o", "l">>,
       <<"n", "i", "c", "e">> >>

good_indicators ==
    << <<"p", "r", "e", "f", "e", "r">>,
       <<"l", "i", "k", "e">>,
       <<"l", "o", "v", "e">>,
       <<"h", "a", "t", "e">>,
       <<"d", "i", "s", "l", "i", "k", "e">>,
       <<"a", "l", "w", "a", "y", "s">>,
       <<"n", "e", "v", "e", "r">>,
       <<"p", "r", "o", "j", "e", "c", "t">>,
       <<"w", "o", "r", "k">>,
       <<"u", "s", "e">>,
       <<"t", "e", "c", "h", "n", "o", "l", "o", "g", "y">>,
       <<"t", "o", "o", "l">>,
       <<"l", "a", "n", "g", "u", "a", "g", "e">>,
       <<"n", "a", "m", "e", " ", "i", "s">>,
       <<"l", "o", "c", "a", "t", "i", "o", "n">>,
       <<"t", "i", "m", "e", "z", "o", "n", "e">>,
       <<"s", "c", "h", "e", "d", "u", "l", "e">>,
       <<"r", "o", "u", "t", "i", "n", "e">>,
       <<"g", "o", "a", "l">>,
       <<"o", "b", "j", "e", "c", "t", "i", "v", "e">>,
       <<"p", "l", "a", "n">>,
       <<"w", "a", "n", "t", " ", "t", "o">>,
       <<"n", "e", "e", "d", " ", "t", "o">> >>

\* The three reject-triggering conditions and the two score-only conditions,
\* as the code evaluates them
TooShort(content) == Len(content) < MIN_MEMORY_LENGTH
TooFewWords(content) == Len(Split(content)) < MIN_WORD_COUNT
LowValue(content) == Strip(Lower(content)) \in Range(low_value_patterns)
HasContext(content) ==
    LET content_lower == Strip(Lower(content))
    IN  \E k \in DOMAIN good_indicators : Contains(content_lower, good_indicators[k])
VeryLong(content) == Len(content) > MAX_CLEAN_LENGTH

\* Mutant: the length penalty also rejects
AssessLongRejects(content) ==
    LET q0 == [should_save |-> TRUE, issues |-> <<>>, score |-> 100]
        q1 == IF TooShort(content)
              THEN [should_save |-> FALSE,
                    issues |-> Append(q0.issues, "Too short (min 20 chars)"),
                    score |-> q0.score - 50]
              ELSE q0
        q2 == IF TooFewWords(content)
              THEN [should_save |-> FALSE,
                    issues |-> Append(q1.issues, "Too few words (min 4 words)"),
                    score |-> q1.score - 30]
              ELSE q1
        q3 == IF LowValue(content)
              THEN [should_save |-> FALSE,
                    issues |-> Append(q2.issues, "Low-value acknowledgment"),
                    score |-> q2.score - 40]
              ELSE q2
        q4 == IF HasContext(content) THEN [q3 EXCEPT !.score = @ + 20] ELSE q3
    IN  IF VeryLong(content)
        THEN [should_save |-> FALSE,
              issues |-> Append(q4.issues, "Very long (may need summarization)"),
              score |-> q4.score - 10]
        ELSE q4

\* Mutant: the assessment stops at the first rule that rejects
AssessShortCircuit(content) ==
    IF TooShort(content)
    THEN [should_save |-> FALSE, issues |-> <<"Too short (min 20 chars)">>, score |-> 50]
    ELSE IF TooFewWords(content)
    THEN [should_save |-> FALSE, issues |-> <<"Too few words (min 4 words)">>, score |-> 70]
    ELSE IF LowValue(content)
    THEN [should_save |-> FALSE, issues |-> <<"Low-value acknowledgment">>, score |-> 60]
    ELSE LET q4 == [should_save |-> TRUE, issues |-> <<>>,
                    score |-> IF HasContext(content) THEN 120 ELSE 100]
         IN  IF VeryLong(content)
             THEN [q4 EXCEPT !.issues = Append(@, "Very long (may need summarization)"),
                             !.score = @ - 10]
             ELSE q4

assess_memory_quality(content) ==
    LET q0 == [should_save |-> TRUE, issues |-> <<>>, score |-> 100]
        q1 == IF TooShort(content)
              THEN [should_save |-> FALSE,
                    issues |-> Append(q0.issues, "Too short (min 20 chars)"),
                    score |-> q0.score - 50]
              ELSE q0
        q2 == IF TooFewWords(content)
              THEN [should_save |-> FALSE,
                    issues |-> Append(q1.issues, "Too few words (min 4 words)"),
                    score |-> q1.score - 30]
              ELSE q1
        q3 == IF LowValue(content)
              THEN [should_save |-> FALSE,
                    issues |-> Append(q2.issues, "Low-value acknowledgment"),
                    score |-> q2.score - 40]
              ELSE q2
        q4 == IF HasContext(content) THEN [q3 EXCEPT !.score = @ + 20] ELSE q3
    IN  IF VeryLong(content)
        THEN [q4 EXCEPT !.issues = Append(@, "Very long (may need summarization)"),
                        !.score = @ - 10]
        ELSE q4

----------------------------------------------------------------------------
(* Inputs of the quality gate: every text of at most MaxPieces pieces, and  *)
(* texts padded to the two lengths around the 500-character rule           *)

Pieces ==
    { <<"o", "k">>,
      <<"G", "o", "t", " ", "i", "t">>,
      <<" ">>,
      <<"\n">>,
      <<"I", " ">>,
      <<"p", "r", "e", "f", "e", "r", " ">>,
      <<"t", "e", "a", " ">>,
      Repeat(<<" ">>, 10) }

RECURSIVE TextsUpTo(_)
TextsUpTo(n) ==
    IF n = 0 THEN {<<>>}
    ELSE LET shorter == TextsUpTo(n - 1)
         IN  shorter \cup {t \o p : t \in shorter, p \in Pieces}

LongPrefixes ==
    { <<>>,
      <<"o", "k", " ">>,
      <<"I", " ", "p", "r", "e", "f", "e", "r", " ", "t", "e", "a", " ">>,
      <<"I", " ", "t", "e", "a", " ", "t", "e", "a", " ">> }

PadTo(t, n) == t \o Repeat(<<"z">>, n - Len(t))

QualityTexts ==
    TextsUpTo(MaxPieces)
        \cup {PadTo(t, MAX_CLEAN_LENGTH) : t \in LongPrefixes}
        \cup {PadTo(t, MAX_CLEAN_LENGTH + 1) : t \in LongPrefixes}

----------------------------------------------------------------------------
(* Lexical similarity.  The quotient len(intersection) / len(union) is kept *)
(* as the pair <<numerator, denominator>>; a comparison with a decimal      *)
(* literal is the comparison of the two fractions, which agrees with the    *)
(* comparison of the doubles for every token count a request can carry.     *)

\* SIMILARITY_THRESHOLD = 0.85
SIMILARITY_THRESHOLD == <<85, 100>>
\* The literal 0.7 of consolidate_memories
CONSOLIDATION_THRESHOLD == <<7, 10>>

\* Mutant: the quotient is taken over the words of the first text only
SimilarityOverFirst(text1, text2) ==
    LET words1 == Range(Split(Lower(text1)))
        words2 == Range(Split(Lower(text2)))
    IN  IF words1 = {} \/ words2 = {}
        THEN <<0, 1>>
        ELSE <<Cardinality(words1 \cap words2), Cardinality(words1)>>

calculate_similarity(text1, text2) ==
    LET words1 == Range(Split(Lower(text1)))
        words2 == Range(Split(Lower(text2)))
    IN  IF words1 = {} \/ words2 = {}
        THEN <<0, 1>>
        ELSE <<Cardinality(words1 \cap words2), Cardinality(words1 \cup words2)>>

\* a > b for fractions with positive denominators
Exceeds(a, b) == a[1] * b[2] > b[1] * a[2]

\* round(x, 2) in hundredths; a tie is reached only by a fraction whose reduced
\* denominator is 8 (below 40 tokens), which a double holds exactly, so that
\* Python rounds it half to even
Round2(a) ==
    LET q == (100 * a[1]) \div a[2]
        rem == (100 * a[1]) % a[2]
    IN  IF 2 * rem < a[2] THEN q
        ELSE IF 2 * rem > a[2] THEN q + 1
        ELSE IF q % 2 = 0 THEN q ELSE q + 1

----------------------------------------------------------------------------
(* Enrichment *)

Digits == <<"0", "1", "2", "3", "4", "5", "6", "7", "8", "9">>

\* str(n) for 0 <= n < 100
Str(n) == IF n < 10 THEN <<Digits[n + 1]>>
          ELSE <<Digits[(n \div 10) + 1], Digits[(n % 10) + 1]>>

\* datetime.isoformat() of clock reading t: a text without whitespace that
\* differs between different readings
isoformat(t) == <<"T">> \o Str(t)

enrich_memory_context(content, now) ==
    LET timestamp == isoformat(now)
        enriched ==
            IF /\ Contains(Lower(content), <<"p", "r", "e", "f", "e", "r">>)
               /\ ~Contains(Lower(content), <<"u", "s", "e", "r">>)
            THEN <<"U", "s", "e", "r", " ", "p", "r", "e", "f", "e", "r", "e", "n",
                   "c", "e", ":", " ">> \o content
            ELSE content
    IN  enriched \o <<"\n", "[", "C", "a", "p", "t", "u", "r", "e", "d", ":", " ">>
                 \o timestamp \o <<"]">>

----------------------------------------------------------------------------
(* Replies of the remote store.  A call either raises a transport exception *)
(* or returns a status code and a body; response.json() raises on a body    *)
(* that is not JSON.  An item of a list is a memory (a dict) or something   *)
(* that is not a dict.                                                      *)

\* The first n letters, separated by single spaces: n one-letter tokens
AlphaText(n) == [i \in 1..(2 * n - 1) |-> IF i % 2 = 1 THEN Lowers[(i + 1) \div 2] ELSE " "]

NoScore == -1

MemoryItems ==
    { [kind |-> "memory", id |-> 1, memory |-> AlphaText(20), score |-> 60,
       categories |-> << <<"w", "o", "r", "k">> >>],
      [kind |-> "memory", id |-> 2, memory |-> AlphaText(19), score |-> NoScore,
       categories |-> <<>>],
      [kind |-> "memory", id |-> 3, memory |-> AlphaText(14), score |-> 50,
       categories |-> << <<"f", "o", "o", "d", "_", "p", "r", "e", "f", "e", "r",
                           "e", "n", "c", "e", "s">>,
                         <<"w", "o", "r", "k">> >>] }

NotADict == [kind |-> "not_a_dict"]

Items == MemoryItems \cup {NotADict}

\* The lists of at most n items, no item twice
RECURSIVE ListsUpTo(_)
ListsUpTo(n) ==
    IF n = 0 THEN {<<>>}
    ELSE LET shorter == ListsUpTo(n - 1)
         IN  shorter \cup {Append(l, x) : l \in shorter, x \in Items}

NoRepeat(l) == \A i, j \in 1..Len(l) : i < j => l[i] # l[j]

ResultLists == {l \in ListsUpTo(MaxResults) : NoRepeat(l)}

Bodies ==
    {[shape |-> "invalid_json", items |-> <<>>],
     [shape |-> "null", items |-> <<>>],
     [shape |-> "empty_dict", items |-> <<>>],
     [shape |-> "dict_without_results", items |-> <<>>]}
        \cup {[shape |-> "dict_with_results", items |-> l] : l \in ResultLists}
        \cup {[shape |-> "list", items |-> l] : l \in ResultLists}

Failures ==
    {[raised |-> TRUE, status |-> 0, body |-> [shape |-> "null", items |-> <<>>]],
     [raised |-> FALSE, status |-> 500, body |-> [shape |-> "null", items |-> <<>>]]}

\* Replies to a search or a list call
Replies ==
    Failures
        \cup {[raised |-> FALSE, status |-> 200, body |-> b] : b \in Bodies}
        \cup {[raised |-> FALSE, status |-> 201, body |-> b] :
                 b \in {c \in Bodies : Len(c.items) <= 1}}

\* Replies to a create call: the handlers read no more of the body than whether
\* it is JSON and whether it is empty
CreateReplies ==
    Failures
        \cup {[raised |-> FALSE, status |-> st, body |-> b] :
                 st \in {200, 201}, b \in {c \in Bodies : Len(c.items) <= 1}}

\* httpx Response.is_success
IsSuccess(status) == status >= 200 /\ status <= 299

\* bool(response.json()) for a body that is JSON
Truthy(body) ==
    CASE body.shape = "null" -> FALSE
      [] body.shape = "empty_dict" -> FALSE
      [] body.shape = "dict_without_results" -> TRUE
      [] body.shape = "dict_with_results" -> TRUE
      [] body.shape = "list" -> body.items # <<>>

----------------------------------------------------------------------------
(* Write-time duplicate check of add_memory (legacy mode) *)

\* Mutant: a similarity equal to the threshold counts as a duplicate
RECURSIVE ScanSimilarAtLeast(_, _, _)
ScanSimilarAtLeast(content, similar_memories, i) ==
    IF i > Len(similar_memories)
    THEN [outcome |-> "no_duplicate", compared |-> i - 1, hit |-> 0]
    ELSE LET mem == similar_memories[i]
         IN  IF mem.kind # "memory"
             THEN [outcome |-> "bad_item", compared |-> i - 1, hit |-> 0]
             ELSE IF ~Exceeds(SIMILARITY_THRESHOLD, calculate_similarity(content, mem.memory))
                  THEN [outcome |-> "duplicate", compared |-> i, hit |-> i]
                  ELSE ScanSimilarAtLeast(content, similar_memories, i + 1)

\* The loop over similar_memories from position i on: how it ends, and how many
\* similarities it computed
RECURSIVE ScanSimilar(_, _, _)
ScanSimilar(content, similar_memories, i) ==
    IF i > Len(similar_memories)
    THEN [outcome |-> "no_duplicate", compared |-> i - 1, hit |-> 0]
    ELSE LET mem == similar_memories[i]
         IN  IF mem.kind # "memory"
             THEN [outcome |-> "bad_item", compared |-> i - 1, hit |-> 0]
             ELSE IF Exceeds(calculate_similarity(content, mem.memory), SIMILARITY_THRESHOLD)
                  THEN [outcome |-> "duplicate", compared |-> i, hit |-> i]
                  ELSE ScanSimilar(content, similar_memories, i + 1)

\* Mutant: a failed search refuses the write
DuplicateCheckFailClosed(content, reply) ==
    IF reply.raised THEN [outcome |-> "duplicate", compared |-> 0, hit |-> 0]
    ELSE IF reply.status # 200 THEN [outcome |-> "duplicate", compared |-> 0, hit |-> 0]
    ELSE IF reply.body.shape = "invalid_json"
         THEN [outcome |-> "duplicate", compared |-> 0, hit |-> 0]
    ELSE IF reply.body.shape = "null"
         THEN [outcome |-> "duplicate", compared |-> 0, hit |-> 0]
    ELSE ScanSimilar(content, reply.body.items, 1)

\* The try block of the duplicate check: every exception raised inside it is
\* caught and logged, a status other than 200 skips the comparison
DuplicateCheck(content, reply) ==
    IF reply.raised THEN [outcome |-> "exception", compared |-> 0, hit |-> 0]
    ELSE IF reply.status # 200 THEN [outcome |-> "not_200", compared |-> 0, hit |-> 0]
    ELSE IF reply.body.shape = "invalid_json"
         THEN [outcome |-> "bad_json", compared |-> 0, hit |-> 0]
    ELSE IF reply.body.shape = "null"
         THEN [outcome |-> "not_iterable", compared |-> 0, hit |-> 0]
    ELSE ScanSimilar(content, reply.body.items, 1)

----------------------------------------------------------------------------
(* The handlers' state when no request is in flight *)

Requests == {"r1", "r2"}

NoReq == [endpoint |-> "none"]
NoLoc == [set |-> FALSE]
NoResp == [kind |-> "none"]

\* A store that holds nothing and has answered nothing
NoAnswer == [to |-> "none"]
RemoteEmpty == [persisted |-> <<>>, answer |-> [r \in Requests |-> NoAnswer]]

SystemIdle ==
    /\ pc = [r \in Requests |-> "idle"]
    /\ req = [r \in Requests |-> NoReq]
    /\ loc = [r \in Requests |-> NoLoc]
    /\ resp = [r \in Requests |-> NoResp]
    /\ calls = [r \in Requests |-> <<>>]
    /\ ENABLE_GRAPH_FEATURES = FALSE
    /\ remote = RemoteEmpty

sysvars == <<pc, req, loc, resp, calls, ENABLE_GRAPH_FEATURES, remote>>

----------------------------------------------------------------------------
(* Specification of the quality gate as a pure function: the input is drawn *)
(* in Init and the gate is applied to it twice                              *)

InitQuality ==
    /\ SystemIdle
    /\ fn_in \in QualityTexts
    /\ fn_out = <<>>

AssessQuality ==
    /\ Len(fn_out) < 2
    /\ fn_out' = Append(fn_out, assess_memory_quality(fn_in))
    /\ UNCHANGED <<fn_in, sysvars>>

NextQuality == AssessQuality

SpecQuality == InitQuality /\ [][NextQuality]_vars

\* C7: should_save is true exactly when none of the three reject-triggering rules
\* (length < 20, fewer than 4 whitespace tokens, trimmed lower-cased text equal to an
\* acknowledgment phrase) fired; the indicator bonus and the length > 500 penalty
\* do not change it; a second call on the same text returns the same verdict.
QualityVerdictIffNoRejectRule ==
    \A k \in 1..Len(fn_out) :
        /\ fn_out[k].should_save
             <=> ~(\/ Len(fn_in) < 20
                   \/ Len(Split(fn_in)) < 4
                   \/ Strip(Lower(fn_in)) \in Range(low_value_patterns))
        /\ fn_out[k] = fn_out[1]

\* Witness of C7: an accepted text that is longer than 500 characters, and so
\* carries the length penalty, has been assessed twice
QualityLongAcceptedWitness ==
    /\ Len(fn_out) = 2
    /\ Len(fn_in) > 500
    /\ fn_out[2].should_save
    /\ fn_out[2].issues # <<>>

----------------------------------------------------------------------------
(* add_memory *)

c_ok == <<"o", "k">>
c_pref == <<"I", " ", "p", "r", "e", "f", "e", "r", " ", "t", "e", "a", " ",
            "e", "v", "e", "r", "y", " ", "d", "a", "y">>
c_alpha == AlphaText(17)

\* Contents a write request carries; <<>> is an absent or empty content
Contents == {c_ok, c_pref, c_alpha}

UserIds == {"el-jefe-principal"}

AddMemoryInputs ==
    [endpoint : {"add_memory"}, messages : BOOLEAN, content : {<<>>} \cup Contents,
     force : BOOLEAN, enable_graph : BOOLEAN, user_id : UserIds]

Finish(r, response) ==
    /\ resp' = [resp EXCEPT ![r] = response]
    /\ pc' = [pc EXCEPT ![r] = "done"]

Issue(r, call, at) ==
    /\ calls' = [calls EXCEPT ![r] = Append(@, call)]
    /\ pc' = [pc EXCEPT ![r] = at]

\* The locals of add_memory: whether the gate assessed the content and its verdict,
\* what the search call gave, how the duplicate check ended, after how many
\* comparisons and on which list, and how the create call ended
NoQuality == [should_save |-> FALSE, issues |-> <<>>, score |-> 0]
NotSent == [sent |-> FALSE, raised |-> FALSE, status |-> 0]
AddLoc(assessed, quality) ==
    [set |-> TRUE, assessed |-> assessed, quality |-> quality,
     search |-> "pending", dup |-> "not_run", compared |-> 0, similar |-> <<>>,
     persist |-> NotSent]
Sent(reply) == [sent |-> TRUE, raised |-> reply.raised, status |-> reply.status]

\* What a handler gives its caller: a JSON body, or an exception
Return(body) == [kind |-> "return", body |-> body]
Raise(exc, status) == [kind |-> "raise", exc |-> exc, status |-> status]

\* Mutant: a rejection is reported as an error
RejectedAsError == Raise("HTTPException", 422)

\* What add_memory returns for a quality rejection and for a duplicate
Rejected == Return([ok |-> FALSE])

\* Mutant: the gate lets every content through
GatePassesAlways(force, quality) == TRUE

\* Mutant: without force the gate lets through what it rejected
GatePassesInverted(force, quality) == force \/ ~quality.should_save

\* `not data.force and not quality["should_save"]` is false
GatePasses(force, quality) == force \/ quality.should_save

\* s[:n] for n >= 0
Prefix(s, n) == SubSeq(s, 1, IF Len(s) < n THEN Len(s) ELSE n)

\* The handler up to its first await
add_memory(r, data) ==
    /\ pc[r] = "idle"
    /\ req' = [req EXCEPT ![r] = data]
    /\ IF ~data.messages /\ data.content = <<>>
       THEN /\ Finish(r, Raise("HTTPException", 400))
            /\ UNCHANGED <<loc, calls>>
       ELSE IF data.enable_graph /\ ~ENABLE_GRAPH_FEATURES
       THEN /\ Finish(r, Raise("HTTPException", 403))
            /\ UNCHANGED <<loc, calls>>
       ELSE IF data.messages
       THEN /\ Issue(r, [op |-> "create", mode |-> "ai_powered", content |-> <<>>,
                         user_id |-> data.user_id], "ai_create")
            /\ loc' = [loc EXCEPT ![r] = AddLoc(FALSE, NoQuality)]
            /\ UNCHANGED resp
       ELSE LET quality == assess_memory_quality(data.content)
            IN  /\ loc' = [loc EXCEPT ![r] = AddLoc(TRUE, quality)]
                /\ IF ~GatePasses(data.force, quality)
                   THEN /\ Finish(r, Rejected)
                        /\ UNCHANGED calls
                   ELSE /\ Issue(r, [op |-> "search", query |-> Prefix(data.content, 100),
                                     user_id |-> data.user_id, top_k |-> 5], "dup_search")
                        /\ UNCHANGED resp
    /\ UNCHANGED <<ENABLE_GRAPH_FEATURES, fn_in, fn_out, remote>>

\* Messages mode, lines 312-328: HTTPStatusError becomes an HTTPException with the
\* same status; any other exception propagates
AiPersistResult(reply) ==
    IF reply.raised THEN Raise("TransportError", 500)
    ELSE IF ~IsSuccess(reply.status) THEN Raise("HTTPException", reply.status)
    ELSE IF reply.body.shape = "invalid_json" THEN Raise("JSONDecodeError", 500)
    ELSE Return([ok |-> Truthy(reply.body)])

add_memory_ai_reply(r, reply) ==
    /\ pc[r] = "ai_create"
    /\ Finish(r, AiPersistResult(reply))
    /\ loc' = [loc EXCEPT ![r].persist = Sent(reply)]
    /\ UNCHANGED <<req, calls, ENABLE_GRAPH_FEATURES, fn_in, fn_out, remote>>

\* similar_memories, when the search answered 200 with a JSON body that holds a list
SimilarMemories(reply) ==
    IF ~reply.raised /\ reply.status = 200 /\ reply.body.shape \notin {"invalid_json", "null"}
    THEN reply.body.items ELSE <<>>

\* What the search call of the duplicate check gave: an exception, a status other
\* than 200, a body that is not JSON or not iterable, or a list
SearchEnded(reply) ==
    IF reply.raised THEN "exception"
    ELSE IF reply.status # 200 THEN "not_200"
    ELSE IF reply.body.shape = "invalid_json" THEN "bad_json"
    ELSE IF reply.body.shape = "null" THEN "not_iterable"
    ELSE "answered"

\* Legacy mode after the search returns: the duplicate check, then the
\* enrichment and the create call
add_memory_dup_reply(r, reply, now) ==
    /\ pc[r] = "dup_search"
    /\ LET found == DuplicateCheck(req[r].content, reply)
       IN  /\ loc' = [loc EXCEPT ![r].dup = found.outcome, ![r].compared = found.compared,
                                  ![r].similar = SimilarMemories(reply),
                                  ![r].search = SearchEnded(reply)]
           /\ IF found.outcome = "duplicate"
              THEN /\ Finish(r, Rejected)
                   /\ UNCHANGED calls
              ELSE /\ Issue(r, [op |-> "create", mode |-> "legacy_content",
                                content |-> enrich_memory_context(req[r].content, now),
                                user_id |-> req[r].user_id], "legacy_create")
                   /\ UNCHANGED resp
    /\ UNCHANGED <<req, ENABLE_GRAPH_FEATURES, fn_in, fn_out, remote>>

\* Mutant: the status of the create call is not checked
LegacyPersistUnchecked(reply) ==
    IF reply.raised THEN Raise("TransportError", 500)
    ELSE IF reply.body.shape = "invalid_json" THEN Raise("JSONDecodeError", 500)
    ELSE Return([ok |-> Truthy(reply.body)])

\* Legacy mode, lines 396-404: nothing is caught
LegacyPersistResult(reply) ==
    IF reply.raised THEN Raise("TransportError", 500)
    ELSE IF ~IsSuccess(reply.status) THEN Raise("HTTPStatusError", 500)
    ELSE IF reply.body.shape = "invalid_json" THEN Raise("JSONDecodeError", 500)
    ELSE Return([ok |-> Truthy(reply.body)])

add_memory_legacy_reply(r, reply) ==
    /\ pc[r] = "legacy_create"
    /\ Finish(r, LegacyPersistResult(reply))
    /\ loc' = [loc EXCEPT ![r].persist = Sent(reply)]
    /\ UNCHANGED <<req, calls, ENABLE_GRAPH_FEATURES, fn_in, fn_out, remote>>

----------------------------------------------------------------------------
(* get_context and recall *)

\* memories[:n] of Python, n of either sign
SliceTo(s, n) ==
    IF n >= 0 THEN Prefix(s, n)
    ELSE SubSeq(s, 1, IF Len(s) + n > 0 THEN Len(s) + n ELSE 0)

\* sep.join(parts)
RECURSIVE Join(_, _)
Join(parts, sep) ==
    IF parts = <<>> THEN <<>>
    ELSE IF Len(parts) = 1 THEN parts[1]
    ELSE parts[1] \o sep \o Join(Tail(parts), sep)

IsLetter(c) == c \in UpperSet \/ c \in LowerSet

\* str.title(): a letter that follows no letter is upper-cased, every other
\* letter lower-cased
Title(s) ==
    [i \in 1..Len(s) |->
        IF ~IsLetter(s[i]) THEN s[i]
        ELSE IF i = 1 \/ ~IsLetter(s[i - 1]) THEN UpperChar(s[i])
        ELSE LowerChar(s[i])]

\* str.replace("_", " ")
ReplaceUnderscore(s) == [i \in 1..Len(s) |-> IF s[i] = "_" THEN " " ELSE s[i]]

\* Scores are held in hundredths, boosted scores in ten-thousandths
DefaultScore == 50
BoostPercent == 15

Matches(mem, query) ==
    LET keywords == Range(Split(Lower(query)))
        content == Lower(mem.memory)
    IN  Cardinality({kw \in keywords : Contains(content, kw)})

BoostedScore(mem, query) ==
    LET base_score == IF mem.score = NoScore THEN DefaultScore ELSE mem.score
    IN  base_score * (100 + Matches(mem, query) * BoostPercent)

\* sorted(..., reverse=True) on the key "_rerank_score": stable, descending
\* Mutant: an element is placed before the elements of equal key
RECURSIVE InsertDescUnstable(_, _)
InsertDescUnstable(sorted, x) ==
    IF sorted = <<>> THEN <<x>>
    ELSE IF Head(sorted)._rerank_score > x._rerank_score
         THEN <<Head(sorted)>> \o InsertDescUnstable(Tail(sorted), x)
         ELSE <<x>> \o sorted

RECURSIVE InsertDesc(_, _)
InsertDesc(sorted, x) ==
    IF sorted = <<>> THEN <<x>>
    ELSE IF Head(sorted)._rerank_score >= x._rerank_score
         THEN <<Head(sorted)>> \o InsertDesc(Tail(sorted), x)
         ELSE <<x>> \o sorted

RECURSIVE SortedDesc(_)
SortedDesc(ms) ==
    IF ms = <<>> THEN <<>>
    ELSE InsertDesc(SortedDesc(SubSeq(ms, 1, Len(ms) - 1)), ms[Len(ms)])

\* Defined on lists of memories; an item that is not a dict raises before the sort
_rerank_by_keywords(memories, query) ==
    SortedDesc([i \in 1..Len(memories) |->
        [kind |-> "memory", id |-> memories[i].id, memory |-> memories[i].memory,
         score |-> memories[i].score, categories |-> memories[i].categories,
         _rerank_score |-> BoostedScore(memories[i], query)]])

general == <<"g", "e", "n", "e", "r", "a", "l">>

\* Mutant: the last listed category labels the memory
CategoryOfLast(mem) ==
    IF mem.categories = <<>> THEN general ELSE mem.categories[Len(mem.categories)]

CategoryOf(mem) == IF mem.categories = <<>> THEN general ELSE mem.categories[1]

\* The keys of by_category in insertion order
RECURSIVE CategoryOrder(_)
CategoryOrder(memories) ==
    IF memories = <<>> THEN <<>>
    ELSE LET before == CategoryOrder(SubSeq(memories, 1, Len(memories) - 1))
             cat == CategoryOf(memories[Len(memories)])
         IN  IF cat \in Range(before) THEN before ELSE Append(before, cat)

\* by_category[cat]: the texts of the memories of that category, in input order
RECURSIVE TextsOf(_, _)
TextsOf(memories, cat) ==
    IF memories = <<>> THEN <<>>
    ELSE IF CategoryOf(Head(memories)) = cat
         THEN <<Head(memories).memory>> \o TextsOf(Tail(memories), cat)
         ELSE TextsOf(Tail(memories), cat)

RECURSIVE BulletLines(_)
BulletLines(texts) ==
    IF texts = <<>> THEN <<>>
    ELSE << <<"-", " ">> \o Head(texts) >> \o BulletLines(Tail(texts))

RECURSIVE SectionLines(_, _)
SectionLines(memories, cats) ==
    IF cats = <<>> THEN <<>>
    ELSE << <<"#", "#", "#", " ">> \o Title(ReplaceUnderscore(Head(cats))) >>
            \o BulletLines(TextsOf(memories, Head(cats)))
            \o << <<>> >>
            \o SectionLines(memories, Tail(cats))

_format_context_for_llm(memories) ==
    IF memories = <<>> THEN <<>>
    ELSE Join(<< <<"#", "#", " ", "U", "s", "e", "r", " ", "C", "o", "n", "t", "e",
                   "x", "t", "\n">> >>
                  \o SectionLines(memories, CategoryOrder(memories)),
              <<"\n">>)

\* Mutant: the except branch puts the error into the context string
ContextFailureAsContext(e) ==
    [context |-> <<"E", "r", "r", "o", "r">>, memories |-> <<>>, count |-> 0, error |-> e]

\* The body get_context returns when its try block raised exception e
ContextFailure(e) ==
    [context |-> <<>>, memories |-> <<>>, count |-> 0, error |-> e]

\* The try block of get_context and its except branch
ContextResult(data, reply) ==
    IF reply.raised THEN ContextFailure("ConnectError")
    ELSE IF ~IsSuccess(reply.status) THEN ContextFailure("HTTPStatusError")
    ELSE IF reply.body.shape = "invalid_json" THEN ContextFailure("JSONDecodeError")
    ELSE LET memories == IF reply.body.shape \in {"dict_with_results", "list"}
                         THEN reply.body.items ELSE <<>>
         IN  IF \E i \in 1..Len(memories) : memories[i].kind # "memory"
             THEN ContextFailure("AttributeError")
             ELSE LET reranked == _rerank_by_keywords(memories, data.current_message)
                      top_memories == SliceTo(reranked, data.max_memories)
                  IN  [context |-> _format_context_for_llm(top_memories),
                       memories |-> top_memories,
                       count |-> Len(top_memories),
                       total_searched |-> Len(reranked)]

\* What went wrong in the upstream search, "none" when nothing did
SearchFailure(reply) ==
    IF reply.raised THEN "exception"
    ELSE IF ~IsSuccess(reply.status) THEN "status"
    ELSE IF reply.body.shape = "invalid_json" THEN "bad_json"
    ELSE IF /\ reply.body.shape \in {"dict_with_results", "list"}
            /\ \E i \in 1..Len(reply.body.items) : reply.body.items[i].kind # "memory"
         THEN "bad_item"
    ELSE "none"

q_tn == <<"t", " ", "N">>
q_zz == <<"z", "z">>
Queries == {q_tn, q_zz}

\* recent_messages: the contents of the messages, oldest first
RecentMessages == {<<>>, << <<"t", "e", "a">> >>}

MaxMemoriesValues == {-1, 0, 1, 2, 21}

GetContextInputs ==
    [endpoint : {"get_context"}, current_message : Queries,
     recent_messages : RecentMessages, user_id : UserIds,
     max_memories : MaxMemoriesValues, enable_graph : BOOLEAN]

RecallInputs ==
    [endpoint : {"recall"}, q : Queries, user_id : UserIds, limit : MaxMemoriesValues]

Min(a, b) == IF a < b THEN a ELSE b

\* data.recent_messages[-3:]
LastThree(ms) == SubSeq(ms, IF Len(ms) > 3 THEN Len(ms) - 2 ELSE 1, Len(ms))

SearchQuery(data) ==
    IF data.recent_messages = <<>> THEN data.current_message
    ELSE data.current_message \o <<" ">>
            \o Join([i \in 1..Len(LastThree(data.recent_messages)) |->
                        Prefix(LastThree(data.recent_messages)[i], 100)], <<" ">>)

\* get_context up to its await; recall enters here with the input it builds
GetContextBegin(r, data) ==
    IF data.enable_graph /\ ~ENABLE_GRAPH_FEATURES
    THEN /\ Finish(r, Raise("HTTPException", 403))
         /\ UNCHANGED <<loc, calls>>
    ELSE /\ Issue(r, [op |-> "search", query |-> Prefix(SearchQuery(data), 200),
                      user_id |-> data.user_id,
                      top_k |-> Min(data.max_memories * 3, 60),
                      enable_graph |-> data.enable_graph], "context_search")
         /\ loc' = [loc EXCEPT ![r] = [set |-> TRUE, data |-> data, failure |-> "pending"]]
         /\ UNCHANGED resp

get_context(r, data) ==
    /\ pc[r] = "idle"
    /\ req' = [req EXCEPT ![r] = data]
    /\ GetContextBegin(r, data)
    /\ UNCHANGED <<ENABLE_GRAPH_FEATURES, fn_in, fn_out, remote>>

\* The GetContextInput recall builds
RecallContextInput(data) ==
    [endpoint |-> "get_context", current_message |-> data.q, recent_messages |-> <<>>,
     user_id |-> data.user_id, max_memories |-> data.limit,
     enable_graph |-> ENABLE_GRAPH_FEATURES]

recall(r, data) ==
    /\ pc[r] = "idle"
    /\ req' = [req EXCEPT ![r] = data]
    /\ GetContextBegin(r, RecallContextInput(data))
    /\ UNCHANGED <<ENABLE_GRAPH_FEATURES, fn_in, fn_out, remote>>

\* recall keeps two keys of get_context's result
RecallBody(result) == [context |-> result.context, count |-> result.count]

\* get_context after the search returns, and recall's return after it
context_reply(r, reply) ==
    /\ pc[r] = "context_search"
    /\ LET result == ContextResult(loc[r].data, reply)
       IN  Finish(r, IF req[r].endpoint = "recall"
                     THEN Return(RecallBody(result))
                     ELSE Return(result))
    /\ loc' = [loc EXCEPT ![r].failure = SearchFailure(reply)]
    /\ UNCHANGED <<req, calls, ENABLE_GRAPH_FEATURES, fn_in, fn_out, remote>>

----------------------------------------------------------------------------
(* consolidate_memories *)

ConsolidateInputs == [endpoint : {"consolidate_memories"}, user_id : UserIds, dry_run : BOOLEAN]

\* The index pairs in the order the two nested loops visit them (0-based):
\* for i in 0..n-1, for j in i+1..n-1
RECURSIVE PairsFrom(_, _, _)
PairsFrom(i, j, n) ==
    IF i >= n THEN <<>>
    ELSE IF j >= n THEN PairsFrom(i + 1, i + 2, n)
    ELSE << <<i, j>> >> \o PairsFrom(i, j + 1, n)

\* Mutant: the inner loop restarts at the first memory
RECURSIVE AllPairsFrom(_, _, _)
AllPairsFrom(i, j, n) ==
    IF i >= n THEN <<>>
    ELSE IF j >= n THEN AllPairsFrom(i + 1, 0, n)
    ELSE << <<i, j>> >> \o AllPairsFrom(i, j + 1, n)

PairOrderFromStart(n) == AllPairsFrom(0, 0, n)

PairOrder(n) == PairsFrom(0, 1, n)

\* f"{i}-{j}"
PairKey(i, j) == Str(i) \o <<"-">> \o Str(j)

\* similarity > 0.7
IsCandidate(similarity) == Exceeds(similarity, CONSOLIDATION_THRESHOLD)

\* The body of the inner loop for the pairs from position k on.  st holds the
\* set `checked`, the list consolidation_candidates, and for the properties the
\* index pairs whose similarity was computed and those emitted, in order
RECURSIVE ScanPairs(_, _, _, _)
ScanPairs(all_memories, pairs, k, st) ==
    IF k > Len(pairs) THEN st
    ELSE LET i == pairs[k][1]
             j == pairs[k][2]
             mem1 == all_memories[i + 1]
             mem2 == all_memories[j + 1]
             pair_key == PairKey(i, j)
         IN  IF pair_key \in st.checked
             THEN ScanPairs(all_memories, pairs, k + 1, st)
             ELSE IF mem1.kind # "memory" \/ mem2.kind # "memory"
             THEN [st EXCEPT !.raised = TRUE, !.checked = @ \cup {pair_key}]
             ELSE LET similarity == calculate_similarity(mem1.memory, mem2.memory)
                      seen == [st EXCEPT !.checked = @ \cup {pair_key},
                                         !.evaluated = Append(@, <<i, j>>)]
                  IN  IF IsCandidate(similarity)
                      THEN ScanPairs(all_memories, pairs, k + 1,
                               [seen EXCEPT
                                   !.candidates = Append(@,
                                       [memory1_id |-> mem1.id,
                                        memory1_content |-> mem1.memory,
                                        memory2_id |-> mem2.id,
                                        memory2_content |-> mem2.memory,
                                        similarity |-> Round2(similarity)]),
                                   !.emitted = Append(@, <<i, j>>)])
                      ELSE ScanPairs(all_memories, pairs, k + 1, seen)

ScanStart == [checked |-> {}, candidates |-> <<>>, evaluated |-> <<>>,
              emitted |-> <<>>, raised |-> FALSE]

FindSimilarPairs(all_memories) ==
    ScanPairs(all_memories, PairOrder(Len(all_memories)), 1, ScanStart)

\* Mutant: with dry_run off the handler returns no candidates
ConsolidateBodyDryOnly(all_memories, scan, dry_run) ==
    IF scan.candidates = <<>> \/ ~dry_run
    THEN [ok |-> TRUE, message |-> "No similar memories found to consolidate",
          total_memories |-> Len(all_memories)]
    ELSE [ok |-> TRUE, dry_run |-> dry_run, candidates |-> scan.candidates,
          count |-> Len(scan.candidates),
          message |-> "Review these candidates. Use update_memory and delete_memory to consolidate manually."]

\* Lines 784-797
ConsolidateBody(all_memories, scan, dry_run) ==
    IF scan.candidates = <<>>
    THEN [ok |-> TRUE, message |-> "No similar memories found to consolidate",
          total_memories |-> Len(all_memories)]
    ELSE [ok |-> TRUE, dry_run |-> dry_run, candidates |-> scan.candidates,
          count |-> Len(scan.candidates),
          message |-> "Review these candidates. Use update_memory and delete_memory to consolidate manually."]

\* The handler after the list call returns; nothing is caught
ConsolidateResult(data, reply) ==
    IF reply.raised THEN Raise("TransportError", 500)
    ELSE IF ~IsSuccess(reply.status) THEN Raise("HTTPStatusError", 500)
    ELSE IF reply.body.shape = "invalid_json" THEN Raise("JSONDecodeError", 500)
    ELSE IF ~Truthy(reply.body)
         THEN Return([ok |-> TRUE, message |-> "No memories to consolidate"])
    ELSE IF reply.body.shape # "list" THEN Raise("TypeError", 500)
    ELSE LET scan == FindSimilarPairs(reply.body.items)
         IN  IF scan.raised THEN Raise("AttributeError", 500)
             ELSE Return(ConsolidateBody(reply.body.items, scan, data.dry_run))

\* The corpus the scan ran on and what it visited; nothing when it did not run
ScanOf(reply) ==
    IF /\ ~reply.raised
       /\ IsSuccess(reply.status)
       /\ reply.body.shape = "list"
       /\ reply.body.items # <<>>
    THEN [set |-> TRUE, ran |-> TRUE, all_memories |-> reply.body.items,
          scan |-> FindSimilarPairs(reply.body.items), reply |-> reply]
    ELSE [set |-> TRUE, ran |-> FALSE, all_memories |-> <<>>, scan |-> ScanStart,
          reply |-> reply]

consolidate_memories(r, data) ==
    /\ pc[r] = "idle"
    /\ req' = [req EXCEPT ![r] = data]
    /\ Issue(r, [op |-> "list", user_id |-> data.user_id], "list_all")
    /\ UNCHANGED <<loc, resp, ENABLE_GRAPH_FEATURES, fn_in, fn_out, remote>>

consolidate_reply(r, reply) ==
    /\ pc[r] = "list_all"
    /\ Finish(r, ConsolidateResult(req[r], reply))
    /\ loc' = [loc EXCEPT ![r] = ScanOf(reply)]
    /\ UNCHANGED <<req, calls, ENABLE_GRAPH_FEATURES, fn_in, fn_out, remote>>

----------------------------------------------------------------------------
(* The service: one request at a time is taken by handler r1, and once it   *)
(* has answered the handler is free for the next request                    *)

Serving == {"r1"}

ClockReadings == 1..NumClock

Init ==
    /\ pc = [r \in Requests |-> "idle"]
    /\ req = [r \in Requests |-> NoReq]
    /\ loc = [r \in Requests |-> NoLoc]
    /\ resp = [r \in Requests |-> NoResp]
    /\ calls = [r \in Requests |-> <<>>]
    /\ ENABLE_GRAPH_FEATURES \in BOOLEAN
    /\ fn_in = <<>>
    /\ fn_out = <<>>
    /\ remote = RemoteEmpty

\* The caller has its answer; the handler's frame is gone
Reset(r) ==
    /\ pc[r] = "done"
    /\ pc' = [pc EXCEPT ![r] = "idle"]
    /\ req' = [req EXCEPT ![r] = NoReq]
    /\ loc' = [loc EXCEPT ![r] = NoLoc]
    /\ resp' = [resp EXCEPT ![r] = NoResp]
    /\ calls' = [calls EXCEPT ![r] = <<>>]
    /\ UNCHANGED <<ENABLE_GRAPH_FEATURES, fn_in, fn_out, remote>>

Next ==
    \E r \in Serving :
        \/ \E data \in AddMemoryInputs : add_memory(r, data)
        \/ \E reply \in CreateReplies : add_memory_ai_reply(r, reply)
        \/ \E reply \in Replies, now \in ClockReadings : add_memory_dup_reply(r, reply, now)
        \/ \E reply \in CreateReplies : add_memory_legacy_reply(r, reply)
        \/ \E data \in GetContextInputs : get_context(r, data)
        \/ \E data \in RecallInputs : recall(r, data)
        \/ \E reply \in Replies : context_reply(r, reply)
        \/ \E data \in ConsolidateInputs : consolidate_memories(r, data)
        \/ \E reply \in Replies : consolidate_reply(r, reply)
        \/ Reset(r)

Spec == Init /\ [][Next]_vars

----------------------------------------------------------------------------
(* Properties of the service *)

IsAdd(r) == req[r].endpoint = "add_memory"
IsContext(r) == req[r].endpoint \in {"get_context", "recall"}
IsConsolidate(r) == req[r].endpoint = "consolidate_memories"

CreateCalls(r) == {k \in DOMAIN calls[r] : calls[r][k].op = "create"}

\* The search of the duplicate check failed (exception, status other than 200,
\* body that is not JSON or not a list), or an item of its list could not be
\* processed before any duplicate was found
DupFailed(r) ==
    \/ loc[r].search \in {"exception", "not_200", "bad_json", "not_iterable"}
    \/ loc[r].dup = "bad_item"

\* The create call was answered and failed: it raised or returned a non-2xx status
CreateFailed(r) ==
    /\ loc[r].persist.sent
    /\ loc[r].persist.raised \/ ~(loc[r].persist.status \in 200..299)

\* The request was refused by policy: by the gate without force, or as a duplicate
PolicyRejected(r) ==
    \/ loc[r].assessed /\ ~req[r].force /\ ~loc[r].quality.should_save
    \/ loc[r].dup = "duplicate"

\* C1 as stated: in both modes a create call is issued only after the quality
\* gate assessed the content and accepted it, or with force set.
CreateOnlyAfterGateBothModes ==
    \A r \in Requests :
        (IsAdd(r) /\ CreateCalls(r) # {}) =>
            \/ loc[r].assessed /\ loc[r].quality.should_save
            \/ req[r].force

\* C1 amended: in legacy (content) mode a create call is issued only after the
\* quality gate assessed the content and accepted it, or with force set; in
\* messages mode the create call is issued without any assessment by the gate.
CreateOnlyAfterGateLegacy ==
    \A r \in Requests :
        (IsAdd(r) /\ CreateCalls(r) # {}) =>
            IF req[r].messages
            THEN ~loc[r].assessed
            ELSE /\ loc[r].assessed
                 /\ req[r].force \/
                       ~(\/ Len(req[r].content) < 20
                         \/ Len(Split(req[r].content)) < 4
                         \/ Strip(Lower(req[r].content)) \in Range(low_value_patterns))

\* Witness of C1: a legacy write without force whose content the gate accepted
\* has issued its create call
LegacyCreateAfterAcceptWitness ==
    \E r \in Requests :
        /\ IsAdd(r) /\ loc[r].set /\ ~req[r].messages /\ ~req[r].force
        /\ loc[r].assessed /\ loc[r].quality.should_save
        /\ CreateCalls(r) # {}

\* C2: in a legacy write that passed the gate, a failure of the duplicate-check
\* search (exception, status other than 200, body that is not JSON or cannot be
\* processed) does not abort the write: the create call is issued, with the
\* enriched content, and the request is not answered as a rejection.
DupCheckFailureStillCreates ==
    \A r \in Requests :
        (IsAdd(r) /\ loc[r].set /\ DupFailed(r)) =>
            /\ Len(calls[r]) = 2
            /\ calls[r][2].op = "create"
            /\ \E now \in 1..NumClock :
                  calls[r][2].content = enrich_memory_context(req[r].content, now)
            /\ pc[r] = "legacy_create" \/ loc[r].persist.sent

\* Witness of C2: the search raised, and the create call is out
DupCheckExceptionWitness ==
    \E r \in Requests :
        /\ IsAdd(r) /\ loc[r].set /\ loc[r].search = "exception"
        /\ pc[r] = "legacy_create"
        /\ calls[r][2].op = "create"

\* C3 as stated: after a failed upstream search get_context and recall return
\* normally with context "", an empty memory list and count 0.
ContextFailureEmptyWithList ==
    \A r \in Requests :
        (IsContext(r) /\ pc[r] = "done" /\ loc[r].set /\ loc[r].failure # "none") =>
            /\ resp[r].kind = "return"
            /\ resp[r].body.context = <<>>
            /\ "memories" \in DOMAIN resp[r].body
            /\ resp[r].body.memories = <<>>
            /\ resp[r].body.count = 0

\* C3 amended: after a failed upstream search both endpoints return normally with
\* context "" and count 0; get_context also returns an empty memory list, while
\* the response of recall has no memory list at all.
ContextFailureEmpty ==
    \A r \in Requests :
        (IsContext(r) /\ pc[r] = "done" /\ loc[r].set /\ loc[r].failure # "none") =>
            /\ resp[r].kind = "return"
            /\ resp[r].body.context = <<>>
            /\ resp[r].body.count = 0
            /\ IF req[r].endpoint = "get_context"
               THEN "memories" \in DOMAIN resp[r].body /\ resp[r].body.memories = <<>>
               ELSE "memories" \notin DOMAIN resp[r].body

\* Witness of C3: recall has answered a search that raised
RecallFailureWitness ==
    \E r \in Requests :
        /\ req[r].endpoint = "recall" /\ pc[r] = "done"
        /\ loc[r].set /\ loc[r].failure = "exception"
        /\ resp[r].kind = "return"

\* C4: after a failed upstream search the response of get_context and of recall
\* has no field that carries the error.
ContextFailureHidesError ==
    \A r \in Requests :
        (IsContext(r) /\ pc[r] = "done" /\ loc[r].set /\ loc[r].failure # "none") =>
            "error" \notin DOMAIN resp[r].body

\* C5: in both modes a create call that raised or returned a non-2xx status makes
\* add_memory end in an error, never in a returned {ok: ...}.
CreateFailurePropagates ==
    \A r \in Requests :
        (IsAdd(r) /\ loc[r].set /\ CreateFailed(r)) =>
            /\ pc[r] = "done"
            /\ resp[r].kind = "raise"

\* Witness of C5: a legacy write whose create call returned 500 ended in an error
LegacyCreateFailedWitness ==
    \E r \in Requests :
        /\ IsAdd(r) /\ ~req[r].messages /\ loc[r].set
        /\ loc[r].persist.sent /\ loc[r].persist.status = 500
        /\ resp[r].kind = "raise"

AboveDupThreshold(content, text) ==
    LET w1 == Range(Split(Lower(content)))
        w2 == Range(Split(Lower(text)))
    IN  /\ w1 # {} /\ w2 # {}
        /\ 100 * Cardinality(w1 \cap w2) > 85 * Cardinality(w1 \cup w2)

\* C8: when the duplicate check ran over the memories the search returned, the
\* write is refused (no create call) exactly when some returned memory has a
\* similarity strictly above 0.85; the comparison goes in the order of the list
\* and stops at the first such memory; with none above the threshold (equality
\* included) every memory is compared and the create call is issued.
DuplicateIffFirstAboveThreshold ==
    \A r \in Requests :
        (IsAdd(r) /\ loc[r].set /\ loc[r].dup \in {"duplicate", "no_duplicate"}) =>
            LET similar == loc[r].similar
                above == {i \in 1..Len(similar) :
                             /\ similar[i].kind = "memory"
                             /\ AboveDupThreshold(req[r].content, similar[i].memory)}
            IN  IF above # {}
                THEN /\ loc[r].dup = "duplicate"
                     /\ \A i \in above : loc[r].compared <= i
                     /\ loc[r].compared \in above
                     /\ CreateCalls(r) = {}
                     /\ resp[r] = [kind |-> "return", body |-> [ok |-> FALSE]]
                ELSE /\ loc[r].dup = "no_duplicate"
                     /\ loc[r].compared = Len(similar)
                     /\ CreateCalls(r) # {}

\* Witness of C8: the only returned memory has similarity 17/20, exactly the
\* threshold, and the create call is out
ThresholdEqualityNotDuplicateWitness ==
    \E r \in Requests :
        /\ IsAdd(r) /\ loc[r].set /\ loc[r].dup = "no_duplicate"
        /\ Len(loc[r].similar) = 1
        /\ calculate_similarity(req[r].content, loc[r].similar[1].memory) = <<17, 20>>
        /\ CreateCalls(r) # {}

\* similarity(a, b) > 0.7, from the token sets
AboveConsolidationThreshold(a, b) ==
    LET w1 == Range(Split(Lower(a)))
        w2 == Range(Split(Lower(b)))
    IN  /\ w1 # {} /\ w2 # {}
        /\ 10 * Cardinality(w1 \cap w2) > 7 * Cardinality(w1 \cup w2)

IndexPairs(n) == {p \in (0..(n - 1)) \X (0..(n - 1)) : p[1] < p[2]}

\* C9: on a corpus of N memories the scan computes the similarity of every index
\* pair i < j exactly once, emits a candidate exactly for the pairs above 0.7,
\* emits no unordered pair twice and no memory with itself, and lists the
\* candidates by increasing i, then j.
ScanVisitsEachPairOnce ==
    \A r \in Requests :
        (IsConsolidate(r) /\ pc[r] = "done" /\ loc[r].ran /\ ~loc[r].scan.raised) =>
            LET all == loc[r].all_memories
                evaluated == loc[r].scan.evaluated
                emitted == loc[r].scan.emitted
                candidates == loc[r].scan.candidates
            IN  /\ \A p \in IndexPairs(Len(all)) :
                      Cardinality({k \in 1..Len(evaluated) : evaluated[k] = p}) = 1
                /\ Range(evaluated) \subseteq IndexPairs(Len(all))
                /\ \A p \in IndexPairs(Len(all)) :
                      (p \in Range(emitted)) <=>
                          AboveConsolidationThreshold(all[p[1] + 1].memory, all[p[2] + 1].memory)
                /\ Range(emitted) \subseteq IndexPairs(Len(all))
                /\ \A k, m \in 1..Len(emitted) :
                      k < m => \/ emitted[k][1] < emitted[m][1]
                               \/ /\ emitted[k][1] = emitted[m][1]
                                  /\ emitted[k][2] < emitted[m][2]
                /\ Len(candidates) = Len(emitted)
                /\ \A k \in 1..Len(emitted) :
                      /\ candidates[k].memory1_id = all[emitted[k][1] + 1].id
                      /\ candidates[k].memory2_id = all[emitted[k][2] + 1].id
                /\ candidates # <<>> =>
                      resp[r].kind = "return" /\ resp[r].body.candidates = candidates

\* Witness of C9: a corpus of three memories gave two candidates, and one of its
\* pairs sits exactly on the threshold
ScanTwoCandidatesWitness ==
    \E r \in Requests :
        /\ IsConsolidate(r) /\ pc[r] = "done" /\ loc[r].ran /\ ~loc[r].scan.raised
        /\ Len(loc[r].all_memories) = 3
        /\ Len(loc[r].scan.emitted) = 2
        /\ Len(resp[r].body.candidates) = 2
        /\ \E p \in IndexPairs(3) :
              calculate_similarity(loc[r].all_memories[p[1] + 1].memory,
                                   loc[r].all_memories[p[2] + 1].memory) = <<14, 20>>

----------------------------------------------------------------------------
(* Specification of calculate_similarity as a pure function: a pair of      *)
(* texts is drawn in Init; the function is applied to (a, b), to (b, a), to *)
(* (a, a) and to (b, b)                                                     *)

SimPieces ==
    { <<"t", "e", "a", " ">>,
      <<"T", "e", "a", "\n">>,
      <<"I", " ">>,
      <<" ", "\t">>,
      <<"o", "k", " ", "I">> }

RECURSIVE SimTextsUpTo(_)
SimTextsUpTo(n) ==
    IF n = 0 THEN {<<>>}
    ELSE LET shorter == SimTextsUpTo(n - 1)
         IN  shorter \cup {t \o p : t \in shorter, p \in SimPieces}

SimilarityTexts == SimTextsUpTo(MaxSimPieces)

InitSimilarity ==
    /\ SystemIdle
    /\ fn_in \in SimilarityTexts \X SimilarityTexts
    /\ fn_out = <<>>

SimilarityArgs(k) ==
    CASE k = 1 -> <<fn_in[1], fn_in[2]>>
      [] k = 2 -> <<fn_in[2], fn_in[1]>>
      [] k = 3 -> <<fn_in[1], fn_in[1]>>
      [] k = 4 -> <<fn_in[2], fn_in[2]>>

ComputeSimilarity ==
    /\ Len(fn_out) < 4
    /\ LET args == SimilarityArgs(Len(fn_out) + 1)
       IN  fn_out' = Append(fn_out, calculate_similarity(args[1], args[2]))
    /\ UNCHANGED <<fn_in, sysvars>>

NextSimilarity == ComputeSimilarity

SpecSimilarity == InitSimilarity /\ [][NextSimilarity]_vars

\* The set of case-folded whitespace tokens of a text
TokenSet(text) == Range(Split(Lower(text)))

\* Two fractions with positive denominators denote the same number
SameNumber(a, b) == a[1] * b[2] = b[1] * a[2]

\* C11: calculate_similarity is the Jaccard index of the two case-folded
\* whitespace-token sets and lies in [0, 1]; sim(a, b) = sim(b, a); sim(a, a) is
\* 1.0 when a has a token; the result is 0.0 when either text has no token.
SimilarityIsSymmetricJaccard ==
    LET A == TokenSet(fn_in[1])
        B == TokenSet(fn_in[2])
    IN  /\ \A k \in 1..Len(fn_out) :
              /\ fn_out[k][2] > 0
              /\ 0 <= fn_out[k][1] /\ fn_out[k][1] <= fn_out[k][2]
        /\ Len(fn_out) >= 1 =>
              IF A = {} \/ B = {}
              THEN fn_out[1][1] = 0
              ELSE SameNumber(fn_out[1], <<Cardinality(A \cap B), Cardinality(A \cup B)>>)
        /\ Len(fn_out) >= 2 => SameNumber(fn_out[2], fn_out[1])
        /\ Len(fn_out) >= 3 =>
              IF A # {} THEN SameNumber(fn_out[3], <<1, 1>>) ELSE fn_out[3][1] = 0
        /\ Len(fn_out) >= 4 =>
              IF B # {} THEN SameNumber(fn_out[4], <<1, 1>>) ELSE fn_out[4][1] = 0

\* Witness of C11: two texts that differ in case and spacing, share one token of
\* their three, and were compared both ways; the similarity is 1/3 each time
SimilarityPartialOverlapWitness ==
    /\ Len(fn_out) = 4
    /\ fn_in[1] # fn_in[2]
    /\ Cardinality(TokenSet(fn_in[1])) = 1
    /\ Cardinality(TokenSet(fn_in[2])) = 3
    /\ fn_out[1] = <<1, 3>>
    /\ fn_out[2] = <<1, 3>>

----------------------------------------------------------------------------
(* Specification of _rerank_by_keywords as a pure function: a list of       *)
(* memories and a query are drawn in Init and the function is applied.  The *)
(* scores of the pool (0.5, 0.65, absent) and its boosts give the same      *)
(* order, ties included, in doubles as in the integers used here.           *)

RerankItems ==
    { [kind |-> "memory", id |-> 1, memory |-> <<"T", "e", "a">>, score |-> 50,
       categories |-> << <<"f", "o", "o", "d">> >>],
      [kind |-> "memory", id |-> 2, memory |-> <<"t", "e", "a", " ", "n", "o", "w">>,
       score |-> NoScore, categories |-> <<>>],
      [kind |-> "memory", id |-> 3, memory |-> <<"z", "z">>, score |-> 65,
       categories |-> << <<"w", "o", "r", "k">>, <<"f", "o", "o", "d">> >>],
      [kind |-> "memory", id |-> 4, memory |-> <<"s", "t", "e", "a", "m">>, score |-> 50,
       categories |-> << <<"f", "o", "o", "d">> >>],
      [kind |-> "memory", id |-> 5, memory |-> <<"Z", "z", " ", "t", "o", "p">>,
       score |-> 60, categories |-> << general >>] }

RECURSIVE RerankListsUpTo(_)
RerankListsUpTo(n) ==
    IF n = 0 THEN {<<>>}
    ELSE LET shorter == RerankListsUpTo(n - 1)
         IN  shorter \cup {Append(l, x) : l \in shorter, x \in RerankItems}

RerankLists == {l \in RerankListsUpTo(MaxRerank) : NoRepeat(l)}

RerankQueries ==
    { <<>>,
      <<"z", "z">>,
      <<"t", "e", "a", " ", "T", "E", "A", " ", "n", "o", "w">> }

InitRerank ==
    /\ SystemIdle
    /\ fn_in \in [memories : RerankLists, query : RerankQueries]
    /\ fn_out = <<>>

Rerank ==
    /\ fn_out = <<>>
    /\ fn_out' = <<_rerank_by_keywords(fn_in.memories, fn_in.query)>>
    /\ UNCHANGED <<fn_in, sysvars>>

NextRerank == Rerank

SpecRerank == InitRerank /\ [][NextRerank]_vars

\* The memory without the key the reranker writes into it
WithoutRerankScore(mem) ==
    [kind |-> mem.kind, id |-> mem.id, memory |-> mem.memory, score |-> mem.score,
     categories |-> mem.categories]

\* base_score * (1 + matches * 0.15) in ten-thousandths, from the claim's words
ExpectedBoosted(mem, query) ==
    LET tokens == {Lower(w) : w \in Range(Split(query))}
        text == Lower(mem.memory)
        matches == Cardinality({w \in tokens : Contains(text, w)})
        base == IF mem.score = NoScore THEN 50 ELSE mem.score
    IN  base * 100 + base * matches * 15

\* C12: the result of _rerank_by_keywords is a permutation of the input, ordered
\* by descending boosted score, boosted = base_score * (1 + matches * 0.15) with
\* matches the number of distinct case-folded query tokens that are substrings
\* of the lower-cased text and base_score 0.5 when absent; memories of equal
\* boosted score keep their input order.
RerankIsStableDescendingPermutation ==
    \A k \in 1..Len(fn_out) :
        LET input == fn_in.memories
            out == fn_out[k]
            pos(m) == CHOOSE i \in 1..Len(input) : input[i] = WithoutRerankScore(out[m])
        IN  /\ Len(out) = Len(input)
            /\ \A i \in 1..Len(input) :
                  Cardinality({m \in 1..Len(out) : WithoutRerankScore(out[m]) = input[i]}) = 1
            /\ \A m \in 1..Len(out) :
                  out[m]._rerank_score = ExpectedBoosted(WithoutRerankScore(out[m]), fn_in.query)
            /\ \A m, n \in 1..Len(out) :
                  m < n =>
                      /\ out[m]._rerank_score >= out[n]._rerank_score
                      /\ out[m]._rerank_score = out[n]._rerank_score => pos(m) < pos(n)

\* Witness of C12: three memories were reordered; two of the results have the
\* same boosted score, one of them by the default base score, and a query
\* token that occurs twice in the query counted once
RerankTieWitness ==
    /\ Len(fn_out) = 1
    /\ Len(fn_out[1]) = 3
    /\ fn_out[1] # [i \in 1..3 |->
                       [kind |-> "memory", id |-> fn_in.memories[i].id,
                        memory |-> fn_in.memories[i].memory,
                        score |-> fn_in.memories[i].score,
                        categories |-> fn_in.memories[i].categories,
                        _rerank_score |-> fn_out[1][i]._rerank_score]]
    /\ fn_out[1][1]._rerank_score = 6500
    /\ fn_out[1][2]._rerank_score = 6500
    /\ fn_out[1][1].score # fn_out[1][2].score
    /\ fn_out[1][3]._rerank_score = 5750

----------------------------------------------------------------------------
(* Specification of _format_context_for_llm as a pure function: a list of   *)
(* memories is drawn in Init and formatted                                  *)

InitFormat ==
    /\ SystemIdle
    /\ fn_in \in RerankLists
    /\ fn_out = <<>>

Format ==
    /\ fn_out = <<>>
    /\ fn_out' = <<_format_context_for_llm(fn_in)>>
    /\ UNCHANGED <<fn_in, sysvars>>

NextFormat == Format

SpecFormat == InitFormat /\ [][NextFormat]_vars

\* The lines of a text, split at its newlines
LinesOf(text) ==
    LET breaks == {i \in 1..Len(text) : text[i] = "\n"}
        starts == {1} \cup {i + 1 : i \in breaks}
        nth(k) == CHOOSE i \in starts : Cardinality({j \in starts : j < i}) = k - 1
        stop(i) == IF \E b \in breaks : b >= i
                   THEN (CHOOSE b \in breaks : b >= i /\ \A c \in breaks : c >= i => b <= c) - 1
                   ELSE Len(text)
    IN  [k \in 1..Cardinality(starts) |-> SubSeq(text, nth(k), stop(nth(k)))]

StartsWith(line, prefix) ==
    Len(line) >= Len(prefix) /\ SubSeq(line, 1, Len(prefix)) = prefix

IsHeading(line) == StartsWith(line, <<"#", "#", "#", " ">>)
IsBullet(line) == StartsWith(line, <<"-", " ">>)

\* The label of a memory: its first listed category, "general" without one
FirstCategory(mem) ==
    IF Len(mem.categories) = 0 THEN <<"g", "e", "n", "e", "r", "a", "l">>
    ELSE Head(mem.categories)

\* C13: the memories are grouped by their first listed category ("general"
\* when there is none); the sections come in first-seen order of the
\* categories, the memories of a section in input order; every input memory is
\* emitted once; no category heading is without a bullet; the empty list gives
\* the empty string.
FormatGroupsByFirstCategory ==
    \A n \in 1..Len(fn_out) :
        LET lines == LinesOf(fn_out[n])
            headings == {k \in 1..Len(lines) : IsHeading(lines[k])}
            bullets == {k \in 1..Len(lines) : IsBullet(lines[k])}
            first == {i \in 1..Len(fn_in) :
                         \A j \in 1..(i - 1) : FirstCategory(fn_in[j]) # FirstCategory(fn_in[i])}
            \* the k-th heading line, and the k-th category seen in the input
            heading(k) == CHOOSE h \in headings : Cardinality({g \in headings : g < h}) = k - 1
            seen(k) == CHOOSE i \in first : Cardinality({j \in first : j < i}) = k - 1
            members(k) == SelectSeq(fn_in, LAMBDA m : FirstCategory(m) = FirstCategory(fn_in[seen(k)]))
        IN  IF fn_in = <<>> THEN fn_out[n] = <<>>
            ELSE /\ Cardinality(headings) = Cardinality(first)
                 /\ Cardinality(bullets) = Len(fn_in)
                 /\ \A k \in 1..Cardinality(headings) :
                       /\ lines[heading(k)] =
                              <<"#", "#", "#", " ">>
                                  \o Title(ReplaceUnderscore(FirstCategory(fn_in[seen(k)])))
                       /\ Len(members(k)) >= 1
                       /\ \A b \in 1..Len(members(k)) :
                             /\ heading(k) + b <= Len(lines)
                             /\ lines[heading(k) + b] = <<"-", " ">> \o members(k)[b].memory
                       /\ heading(k) + Len(members(k)) + 1 <= Len(lines)
                       /\ ~IsBullet(lines[heading(k) + Len(members(k)) + 1])

\* Witness of C13: three memories in two sections; the first and the third
\* memory share the first section, and the second memory lists the category of
\* that section after its own
FormatInterleavedWitness ==
    /\ Len(fn_out) = 1
    /\ Len(fn_in) = 3
    /\ FirstCategory(fn_in[1]) = FirstCategory(fn_in[3])
    /\ FirstCategory(fn_in[2]) # FirstCategory(fn_in[1])
    /\ Len(fn_in[2].categories) = 2
    /\ fn_in[2].categories[2] = FirstCategory(fn_in[1])
    /\ Cardinality({k \in 1..Len(LinesOf(fn_out[1])) : IsHeading(LinesOf(fn_out[1])[k])}) = 2

----------------------------------------------------------------------------
(* Enrichment and the verdict of the gate *)

\* The create calls of request r that carry enriched content, with the label
\* prefix where the code adds one and the capture footer
EnrichedCalls(r) ==
    {k \in CreateCalls(r) :
        \E now \in ClockReadings :
            calls[r][k].content = enrich_memory_context(req[r].content, now)}

\* The verdict of the gate on a content, from the three reject rules
VerdictAccept(content) ==
    ~(\/ Len(content) < 20
      \/ Len(Split(content)) < 4
      \/ Strip(Lower(content)) \in Range(low_value_patterns))

\* C14 as stated: in every execution of add_memory enrichment is applied only to
\* content the gate accepted, never to content whose verdict was reject.
EnrichOnlyAccepted ==
    \A r \in Requests :
        (IsAdd(r) /\ EnrichedCalls(r) # {}) =>
            loc[r].assessed /\ VerdictAccept(req[r].content)

\* C14 amended: enrichment is applied in legacy mode only, to content the gate
\* assessed, and only when the verdict was accept or the force override is set;
\* with force set, content whose verdict was reject is enriched as well; every
\* legacy create call carries the enriched content and no messages-mode call does.
EnrichOnlyAcceptedOrForced ==
    \A r \in Requests :
        (IsAdd(r) /\ loc[r].set) =>
            /\ EnrichedCalls(r) # {} =>
                  /\ ~req[r].messages
                  /\ loc[r].assessed
                  /\ VerdictAccept(req[r].content) \/ req[r].force
            /\ ~req[r].messages => EnrichedCalls(r) = CreateCalls(r)
            /\ (~req[r].messages /\ req[r].force /\ loc[r].dup \in {"no_duplicate", "bad_item"})
                  => EnrichedCalls(r) # {}

\* Witness of C14: a forced legacy write of a content the gate rejected has
\* sent the enriched content to the store
ForcedRejectEnrichedWitness ==
    \E r \in Requests :
        /\ IsAdd(r) /\ loc[r].set /\ ~req[r].messages /\ req[r].force
        /\ loc[r].assessed /\ ~loc[r].quality.should_save
        /\ EnrichedCalls(r) # {}

----------------------------------------------------------------------------
(* The score of the quality gate *)

\* 1 when the rule fired, 0 otherwise
Fired(b) == IF b THEN 1 ELSE 0

\* The issue of a penalty rule when it fired, nothing otherwise
IssueIf(b, text) == IF b THEN <<text>> ELSE <<>>

\* C15: every rule is applied to a score that starts at 100, none is skipped
\* after an earlier one fired: score = 100 - 50*[length < 20] - 30*[words < 4]
\* - 40*[acknowledgment] + 20*[indicator] - 10*[length > 500], without floor or
\* ceiling, and issues has one entry per fired penalty rule, in rule order.
QualityScoreIsSumOfRules ==
    \A k \in 1..Len(fn_out) :
        LET short == Len(fn_in) < 20
            few == Len(Split(fn_in)) < 4
            ack == Strip(Lower(fn_in)) \in Range(low_value_patterns)
            indicator == \E i \in DOMAIN good_indicators :
                             Contains(Lower(fn_in), good_indicators[i])
            long == Len(fn_in) > 500
        IN  /\ fn_out[k].score =
                  100 - 50 * Fired(short) - 30 * Fired(few) - 40 * Fired(ack)
                      + 20 * Fired(indicator) - 10 * Fired(long)
            /\ fn_out[k].issues =
                  IssueIf(short, "Too short (min 20 chars)")
                      \o IssueIf(few, "Too few words (min 4 words)")
                      \o IssueIf(ack, "Low-value acknowledgment")
                      \o IssueIf(long, "Very long (may need summarization)")

\* Witness of C15: an acknowledgment fired the three reject rules and left a
\* score below zero
QualityNegativeScoreWitness ==
    /\ Len(fn_out) >= 1
    /\ fn_out[1].score = -20
    /\ Len(fn_out[1].issues) = 3

----------------------------------------------------------------------------
(* The size of the context *)

\* C16: for every max_memories the endpoint accepts, get_context asks the
\* search for top_k = min(3 * max_memories, 60) candidates, returns the first
\* entries of the reranked list, and returns a count that never exceeds
\* max_memories.
ContextCountWithinMax ==
    \A r \in Requests :
        (/\ IsContext(r) /\ req[r].endpoint = "get_context"
         /\ pc[r] = "done" /\ loc[r].set /\ loc[r].failure = "none") =>
            LET max_memories == req[r].max_memories
                memories == resp[r].body.memories
            IN  /\ calls[r][1].top_k = (IF 3 * max_memories < 60 THEN 3 * max_memories ELSE 60)
                /\ resp[r].body.count = Len(memories)
                /\ Len(memories) <= resp[r].body.total_searched
                /\ resp[r].body.count <= max_memories

----------------------------------------------------------------------------
(* Two concurrent legacy writes of one user against a store that keeps what *)
(* it is sent.  A call of a handler is in flight until the store serves it: *)
(* a search is answered with every memory persisted at that moment, a       *)
(* create call persists its content and is answered with success.  The      *)
(* handler resumes with the answer at some later step; between its awaits   *)
(* the event loop may run the other handler.                                *)

c_alpha_upper == [i \in 1..Len(c_alpha) |-> IF i = 1 THEN "A" ELSE c_alpha[i]]

RaceContents == {c_alpha, c_alpha_upper}

RaceInputs ==
    [endpoint : {"add_memory"}, messages : {FALSE}, content : RaceContents,
     force : BOOLEAN, enable_graph : {FALSE}, user_id : UserIds]

\* The store serves the search of the duplicate check of handler r
StoreServesSearch(r) ==
    /\ pc[r] = "dup_search"
    /\ remote.answer[r].to = "none"
    /\ remote' = [remote EXCEPT !.answer[r] =
                     [to |-> "search",
                      reply |-> [raised |-> FALSE, status |-> 200,
                                 body |-> [shape |-> "dict_with_results",
                                           items |-> remote.persisted]]]]
    /\ UNCHANGED <<pc, req, loc, resp, calls, ENABLE_GRAPH_FEATURES, fn_in, fn_out>>

\* The store serves the create call of handler r
StoreServesCreate(r) ==
    /\ pc[r] = "legacy_create"
    /\ remote.answer[r].to = "search"
    /\ LET stored == [kind |-> "memory", id |-> Len(remote.persisted) + 1,
                      memory |-> calls[r][Len(calls[r])].content,
                      score |-> NoScore, categories |-> <<>>]
       IN  remote' = [persisted |-> Append(remote.persisted, stored),
                      answer |-> [remote.answer EXCEPT ![r] =
                                     [to |-> "create",
                                      reply |-> [raised |-> FALSE, status |-> 200,
                                                 body |-> [shape |-> "list",
                                                           items |-> <<stored>>]]]]]
    /\ UNCHANGED <<pc, req, loc, resp, calls, ENABLE_GRAPH_FEATURES, fn_in, fn_out>>

\* Handler r resumes after its search with the answer of the store
ResumeAfterSearch(r, now) ==
    /\ remote.answer[r].to = "search"
    /\ add_memory_dup_reply(r, remote.answer[r].reply, now)

\* Handler r resumes after its create call with the answer of the store
ResumeAfterCreate(r) ==
    /\ remote.answer[r].to = "create"
    /\ add_memory_legacy_reply(r, remote.answer[r].reply)

InitRace ==
    /\ SystemIdle
    /\ fn_in = <<>>
    /\ fn_out = <<>>

NextRace ==
    \E r \in Requests :
        \/ \E data \in RaceInputs : add_memory(r, data)
        \/ StoreServesSearch(r)
        \/ \E now \in ClockReadings : ResumeAfterSearch(r, now)
        \/ StoreServesCreate(r)
        \/ ResumeAfterCreate(r)

SpecRace == InitRace /\ [][NextRace]_vars

\* C17: under every interleaving, when two legacy writes of the same user
\* carry contents whose similarity exceeds 0.85 and the search returns every
\* memory persisted for the user, at most one of the two issues a create call.
AtMostOneCreateOfSimilarPair ==
    \A r, q \in Requests :
        (/\ r # q
         /\ IsAdd(r) /\ IsAdd(q)
         /\ ~req[r].messages /\ ~req[q].messages
         /\ req[r].user_id = req[q].user_id
         /\ AboveDupThreshold(req[r].content, req[q].content)) =>
            ~(CreateCalls(r) # {} /\ CreateCalls(q) # {})

====
